---- MODULE Spec2Model ----
(***************************************************************************)
(* Model of the open-racer firmware (src/src/open-racer-firmware.c and     *)
(* src/src/uart.c): the velocity-to-duty mapping of the two motor axes,    *)
(* the two command decoders, the battery monitor and the control loop of   *)
(* main().                                                                 *)
(*                                                                         *)
(* A called function runs as a sequence of pending steps, ops: the head    *)
(* of ops is the next statement to execute and the control loop advances   *)
(* only when ops is empty, which is the C call/return discipline.          *)
(***************************************************************************)
EXTENDS Integers, Sequences, FiniteSets, TLC

VARIABLES
    pc,                             \* position in main()'s loop / in batt_low_consistently
    ops,                            \* pending statements of the functions being executed
    protocol,                       \* which decoder main() calls (lines 712-713)
    velocity,                       \* static int16_t velocity
    steerposition,                  \* static int16_t steerposition
    newvelocity,                    \* argument of the last motor_drive_set_velocity call, as passed
    newsteerposition,               \* argument of the last motor_steer_set_velocity call, as passed
    reg,                            \* OCR0A, OCR0B, OCR1A, OCR1B, OCR2B
    led,                            \* led1..led4 (PORTC bits)
    battlevel,                      \* static uint8_t battlevel
    ADCH,                           \* last raw reading taken from the ADC
    voltagedisplaytogglecountdown,
    voltagedisplaytogglestate,
    battwarntogglecountdown,
    battwarntogglestate,
    PIND4,                          \* bluetooth_connected() as read in this tick
    RXC0,                           \* uart_hasch() as read in this tick
    command,                        \* byte returned by uart_getch() in this tick
    i,                              \* loop index of batt_low_consistently
    warn,                           \* counter of batt_low_consistently
    ret,                            \* value returned by batt_low_consistently
    ourmagic,                       \* EEPROM byte
    ourage,                         \* EEPROM byte
    tx,                             \* the transport: last line sent and the number of sends of this tick
    ticks,                          \* number of loop iterations started
    checked,                        \* batt_low_consistently was entered in this tick
    taken,                          \* samples taken by the running batt_low_consistently
    below,                          \* of those, how many were below the threshold
    prevstop,                       \* the previous tick forced a safe stop (link lost or battery critical)
    ncalls,                         \* unit harness: calls issued
    snap                            \* unit harness: mapper state when a call was repeated

vars == <<pc, ops, protocol, velocity, steerposition, newvelocity, newsteerposition,
          reg, led, battlevel, ADCH,
          voltagedisplaytogglecountdown, voltagedisplaytogglestate,
          battwarntogglecountdown, battwarntogglestate,
          PIND4, RXC0, command, i, warn, ret, ourmagic, ourage, tx,
          ticks, checked, taken, below, prevstop, ncalls, snap>>

motorvars == <<velocity, steerposition, newvelocity, newsteerposition>>
togglevars == <<voltagedisplaytogglecountdown, voltagedisplaytogglestate,
                battwarntogglecountdown, battwarntogglestate>>
inputvars == <<PIND4, RXC0, command>>
blcvars == <<i, warn, ret, taken, below>>
eepromvars == <<ourmagic, ourage>>
unitvars == <<ncalls, snap>>

----------------------------------------------------------------------------
(* Bounds of the model *)

MaxTicks == 11                      \* loop iterations explored by Spec
ArgMax == 300                       \* UnitSpec passes every velocity in -ArgMax..ArgMax
MaxCalls == 2                       \* UnitSpec issues at most this many calls

(* Program constants *)

Int16Min == -32768
Int16Max == 32767
OURMAGIC == 71
battlowthreshold == 10
voltagedisplaytoggleperiodlength == 200
battwarntoggleperiodlength == 20

----------------------------------------------------------------------------
(* Machine arithmetic *)

RECURSIVE BitAnd(_, _)
BitAnd(a, b) ==
    IF a = 0 \/ b = 0 THEN 0
    ELSE (a % 2) * (b % 2) + 2 * BitAnd(a \div 2, b \div 2)

\* the bit pattern of a 16-bit two's complement int
Bits16(v) == (v + 65536) % 65536

\* conversion to uint8_t
U8(v) == v % 256

----------------------------------------------------------------------------
(* uart.c *)

\* the characters uart_sendint(v) sends, as ASCII codes
uart_sendint(v) ==
    LET a  == IF v < 0 THEN -v ELSE v
        th == 48 + (a % 10000) \div 1000
        h  == 48 + (a % 1000) \div 100
        t  == 48 + (a % 100) \div 10
        o  == 48 + (a % 10)
        n1 == th # 48
        n2 == n1 \/ h # 48
        n3 == n2 \/ t # 48
    IN  (IF v < 0 THEN <<45>> ELSE <<>>)
        \o (IF n1 THEN <<th>> ELSE <<>>)
        \o (IF n2 THEN <<h>> ELSE <<>>)
        \o (IF n3 THEN <<t>> ELSE <<>>)
        \o <<o>>

Line(pre, num, post) == [pre |-> pre, num |-> num, post |-> post]

\* uart_send / uart_sendch: the line goes out and the transport changes
uart_send(line) == tx' = [n |-> tx.n + 1, line |-> line]

----------------------------------------------------------------------------
(* Pending statements *)

Op(k, r, v) == [k |-> k, r |-> r, v |-> v]
Write(r, v) == Op("w", r, v)
Led(n, on) == Op("led", n, IF on THEN 1 ELSE 0)
Call(f, v) == Op("call", f, v)

Regs == {"OCR0A", "OCR0B", "OCR1A", "OCR1B", "OCR2B"}
Leds == {"led1", "led2", "led3", "led4"}

----------------------------------------------------------------------------
(* Actuation: velocity to duty pair *)

\* faulty variant: the reverse channel is not cleared
motor_drive_forward_nozero(speed) == <<Write("OCR1B", Bits16(speed))>>

motor_drive_forward(speed) == <<Write("OCR1A", 0), Write("OCR1B", Bits16(speed))>>

\* faulty variant: the new duty is written before the other channel is cleared
motor_drive_reverse_swapped(speed) == <<Write("OCR1A", Bits16(speed)), Write("OCR1B", 0)>>

motor_drive_reverse(speed) == <<Write("OCR1B", 0), Write("OCR1A", Bits16(speed))>>

motor_steer_right(value) == <<Write("OCR0B", 0), Write("OCR0A", U8(value))>>

motor_steer_left(value) == <<Write("OCR0A", 0), Write("OCR0B", U8(value))>>

\* faulty variant: the lower clamp is missing
ClampVelocity_upper(new) == IF new > 255 THEN 255 ELSE new

\* if (new > 255) new = 255; if (new < -255) new = -255;
ClampVelocity(new) ==
    LET hi == IF new > 255 THEN 255 ELSE new
    IN  IF hi < -255 THEN -255 ELSE hi

\* faulty variant: the reverse duty is the magnitude of the velocity
DriveOutputs_abs(v) ==
    IF v >= 0 THEN motor_drive_forward(BitAnd(Bits16(v), 255))
    ELSE motor_drive_reverse(-v)

\* the if/else that ends motor_drive_set_velocity
DriveOutputs(v) ==
    IF v >= 0 THEN motor_drive_forward(BitAnd(Bits16(v), 255))
    ELSE motor_drive_reverse(255 - BitAnd(Bits16(v), 255))

\* the if/else that ends motor_steer_set_velocity
SteerOutputs(v) ==
    IF v >= 0 THEN motor_steer_right(BitAnd(Bits16(v), 255))
    ELSE motor_steer_left(255 - BitAnd(Bits16(v), 255))

\* faulty variant: the argument is added to the stored velocity
motor_drive_set_velocity_rel(new) ==
    LET v == ClampVelocity(velocity + new)
    IN  /\ velocity' = v
        /\ newvelocity' = new
        /\ uart_send(Line("drive=", uart_sendint(v), "\n"))
        /\ ops' = DriveOutputs(v) \o Tail(ops)
        /\ UNCHANGED <<steerposition, newsteerposition>>

motor_drive_set_velocity(new) ==
    LET v == ClampVelocity(new)
    IN  /\ velocity' = v
        /\ newvelocity' = new
        /\ uart_send(Line("drive=", uart_sendint(v), "\n"))
        /\ ops' = DriveOutputs(v) \o Tail(ops)
        /\ UNCHANGED <<steerposition, newsteerposition>>

motor_steer_set_velocity(new) ==
    LET v == ClampVelocity(new)
    IN  /\ steerposition' = v
        /\ newsteerposition' = new
        /\ uart_send(Line("steer=", uart_sendint(v), "\n"))
        /\ ops' = SteerOutputs(v) \o Tail(ops)
        /\ UNCHANGED <<velocity, newvelocity>>

----------------------------------------------------------------------------
(* Command decoders: the calls each command byte makes *)

\* faulty variant: the speed base is 100
handle_char_compat_dagu_base100(c) ==
    LET speed == U8(100 + BitAnd(c, 15) * 1)
        direction == BitAnd(c, 240) \div 16
    IN  CASE direction = 0 -> <<Call("steer", 0), Call("drive", 0)>>
          [] direction = 1 -> <<Call("steer", 0), Call("drive", speed)>>
          [] direction = 2 -> <<Call("steer", 0), Call("drive", -speed)>>
          [] direction = 3 -> <<Call("steer", -255), Call("drive", 0)>>
          [] direction = 4 -> <<Call("steer", 255), Call("drive", 0)>>
          [] direction = 5 -> <<Call("steer", -255), Call("drive", speed)>>
          [] direction = 6 -> <<Call("steer", 255), Call("drive", speed)>>
          [] direction = 7 -> <<Call("steer", -255), Call("drive", -speed)>>
          [] direction = 8 -> <<Call("steer", 255), Call("drive", -speed)>>
          [] OTHER -> <<>>

\* faulty variant: the direction code is masked with 0x70
handle_char_compat_dagu_mask7(c) ==
    LET speed == U8(105 + BitAnd(c, 15) * 1)
        direction == BitAnd(c, 112) \div 16
    IN  CASE direction = 0 -> <<Call("steer", 0), Call("drive", 0)>>
          [] direction = 1 -> <<Call("steer", 0), Call("drive", speed)>>
          [] direction = 2 -> <<Call("steer", 0), Call("drive", -speed)>>
          [] direction = 3 -> <<Call("steer", -255), Call("drive", 0)>>
          [] direction = 4 -> <<Call("steer", 255), Call("drive", 0)>>
          [] direction = 5 -> <<Call("steer", -255), Call("drive", speed)>>
          [] direction = 6 -> <<Call("steer", 255), Call("drive", speed)>>
          [] direction = 7 -> <<Call("steer", -255), Call("drive", -speed)>>
          [] direction = 8 -> <<Call("steer", 255), Call("drive", -speed)>>
          [] OTHER -> <<>>

\* faulty variant: the magnitude is masked with 0x1f
handle_char_compat_dagu_mask1f(c) ==
    LET speed == U8(105 + BitAnd(c, 31) * 1)
        direction == BitAnd(c, 240) \div 16
    IN  CASE direction = 0 -> <<Call("steer", 0), Call("drive", 0)>>
          [] direction = 1 -> <<Call("steer", 0), Call("drive", speed)>>
          [] direction = 2 -> <<Call("steer", 0), Call("drive", -speed)>>
          [] direction = 3 -> <<Call("steer", -255), Call("drive", 0)>>
          [] direction = 4 -> <<Call("steer", 255), Call("drive", 0)>>
          [] direction = 5 -> <<Call("steer", -255), Call("drive", speed)>>
          [] direction = 6 -> <<Call("steer", 255), Call("drive", speed)>>
          [] direction = 7 -> <<Call("steer", -255), Call("drive", -speed)>>
          [] direction = 8 -> <<Call("steer", 255), Call("drive", -speed)>>
          [] OTHER -> <<>>

handle_char_compat_dagu(c) ==
    LET speed == U8(105 + BitAnd(c, 15) * 1)
        direction == BitAnd(c, 240) \div 16
    IN  CASE direction = 0 -> <<Call("steer", 0), Call("drive", 0)>>
          [] direction = 1 -> <<Call("steer", 0), Call("drive", speed)>>
          [] direction = 2 -> <<Call("steer", 0), Call("drive", -speed)>>
          [] direction = 3 -> <<Call("steer", -255), Call("drive", 0)>>
          [] direction = 4 -> <<Call("steer", 255), Call("drive", 0)>>
          [] direction = 5 -> <<Call("steer", -255), Call("drive", speed)>>
          [] direction = 6 -> <<Call("steer", 255), Call("drive", speed)>>
          [] direction = 7 -> <<Call("steer", -255), Call("drive", -speed)>>
          [] direction = 8 -> <<Call("steer", 255), Call("drive", -speed)>>
          [] OTHER -> <<>>

\* faulty variant: an unknown character is dropped without an answer
handle_char_silent(c) ==
    CASE c = 82 -> <<Call("steer", 255)>>                   \* 'R'
      [] c = 114 -> <<Call("steer", 127)>>                  \* 'r'
      [] c = 115 -> <<Call("steer", 0)>>                    \* 's'
      [] c = 108 -> <<Call("steer", -127)>>                 \* 'l'
      [] c = 76 -> <<Call("steer", -255)>>                  \* 'L'
      [] c = 70 -> <<Call("drive", 255)>>                   \* 'F'
      [] c = 102 -> <<Call("drive", 127)>>                  \* 'f'
      [] c = 104 -> <<Call("drive", 0)>>                    \* 'h'
      [] c = 98 -> <<Call("drive", -127)>>                  \* 'b'
      [] c = 66 -> <<Call("drive", -255)>>                  \* 'B'
      [] c = 97 -> <<Call("steer", -255)>>                  \* 'a'
      [] c = 111 -> <<Call("steer", 0)>>                    \* 'o'
      [] c = 101 -> <<Call("steer", 255)>>                  \* 'e'
      [] c = 112 -> <<Call("drive", velocity + 5)>>         \* 'p'
      [] c = 117 -> <<Call("drive", velocity - 5)>>         \* 'u'
      [] c = 32 -> <<Call("drive", 0), Call("steer", 0)>>   \* ' '
      [] c = 65 -> <<Op("show", "", 0), Op("age", "", 0), Op("show", "", 0)>>   \* 'A'
      [] c = 63 -> <<Op("tx", "steering: RrslL\ngas: FfhbB\n", 0),
                     Op("txadc", "batt=", 0)>>              \* '?'
      [] OTHER -> <<>>

\* c is the ASCII code of the command character
handle_char(c) ==
    CASE c = 82 -> <<Call("steer", 255)>>                   \* 'R'
      [] c = 114 -> <<Call("steer", 127)>>                  \* 'r'
      [] c = 115 -> <<Call("steer", 0)>>                    \* 's'
      [] c = 108 -> <<Call("steer", -127)>>                 \* 'l'
      [] c = 76 -> <<Call("steer", -255)>>                  \* 'L'
      [] c = 70 -> <<Call("drive", 255)>>                   \* 'F'
      [] c = 102 -> <<Call("drive", 127)>>                  \* 'f'
      [] c = 104 -> <<Call("drive", 0)>>                    \* 'h'
      [] c = 98 -> <<Call("drive", -127)>>                  \* 'b'
      [] c = 66 -> <<Call("drive", -255)>>                  \* 'B'
      [] c = 97 -> <<Call("steer", -255)>>                  \* 'a'
      [] c = 111 -> <<Call("steer", 0)>>                    \* 'o'
      [] c = 101 -> <<Call("steer", 255)>>                  \* 'e'
      [] c = 112 -> <<Call("drive", velocity + 5)>>         \* 'p'
      [] c = 117 -> <<Call("drive", velocity - 5)>>         \* 'u'
      [] c = 32 -> <<Call("drive", 0), Call("steer", 0)>>   \* ' '
      [] c = 65 -> <<Op("show", "", 0), Op("age", "", 0), Op("show", "", 0)>>   \* 'A'
      [] c = 63 -> <<Op("tx", "steering: RrslL\ngas: FfhbB\n", 0),
                     Op("txadc", "batt=", 0)>>              \* '?'
      [] OTHER -> <<Op("tx", "?\n", 0)>>

----------------------------------------------------------------------------
(* Battery monitor *)

\* the level batt_sample stores for the raw reading; battsample is a uint8_t
batt_sample(raw) ==
    LET s0 == U8(raw)
        s1 == U8(s0 - 142)
        s2 == IF s1 < 0 THEN 0 ELSE s1
        s3 == U8(s2 * 5)
    IN  IF s3 > 255 THEN 255 ELSE s3

\* faulty variant: off by one
batt_low_result_16(w) == w > 16

\* return warn > 17;
batt_low_result(w) == w > 17

----------------------------------------------------------------------------
(* Execution of the pending statements *)

DriveSet ==
    /\ ops # <<>>
    /\ Head(ops).k = "call" /\ Head(ops).r = "drive"
    /\ motor_drive_set_velocity(Head(ops).v)
    /\ UNCHANGED <<pc, protocol, reg, led, battlevel, ADCH, togglevars, inputvars,
                   blcvars, eepromvars, ticks, checked, unitvars, prevstop>>

SteerSet ==
    /\ ops # <<>>
    /\ Head(ops).k = "call" /\ Head(ops).r = "steer"
    /\ motor_steer_set_velocity(Head(ops).v)
    /\ UNCHANGED <<pc, protocol, reg, led, battlevel, ADCH, togglevars, inputvars,
                   blcvars, eepromvars, ticks, checked, unitvars, prevstop>>

WriteReg ==
    /\ ops # <<>>
    /\ Head(ops).k = "w"
    /\ reg' = [reg EXCEPT ![Head(ops).r] = Head(ops).v]
    /\ ops' = Tail(ops)
    /\ UNCHANGED <<pc, protocol, motorvars, led, battlevel, ADCH, togglevars, inputvars,
                   blcvars, eepromvars, tx, ticks, checked, unitvars, prevstop>>

----------------------------------------------------------------------------
(* State after static initialisation and the set-up part of main() *)

InitState ==
    /\ velocity = 0 /\ steerposition = 0
    /\ newvelocity = 0 /\ newsteerposition = 0
    /\ reg = [r \in Regs |-> IF r = "OCR2B" THEN 255 ELSE 0]
    /\ led = [l \in Leds |-> 0]
    /\ battlevel = 11
    /\ ADCH = 0
    /\ voltagedisplaytogglecountdown = 10
    /\ voltagedisplaytogglestate = 0
    /\ battwarntogglecountdown = 0
    /\ battwarntogglestate = 0
    /\ PIND4 = TRUE /\ RXC0 = FALSE /\ command = 0
    /\ i = 0 /\ warn = 0 /\ ret = FALSE
    /\ tx = [n |-> 0, line |-> Line("", <<>>, "")]
    /\ ticks = 0 /\ checked = FALSE /\ taken = 0 /\ below = 0
    /\ prevstop = FALSE
    /\ ncalls = 0
    /\ snap = [last |-> "none", rep |-> FALSE, st |-> <<>>]

----------------------------------------------------------------------------
(* The remaining pending statements: transport, EEPROM, LEDs *)

SetLed ==
    /\ ops # <<>>
    /\ Head(ops).k = "led"
    /\ led' = [led EXCEPT ![Head(ops).r] = Head(ops).v]
    /\ ops' = Tail(ops)
    /\ UNCHANGED <<pc, protocol, motorvars, reg, battlevel, ADCH, togglevars, inputvars,
                   blcvars, eepromvars, tx, ticks, checked, unitvars, prevstop>>

\* uart_send(text)
SendText ==
    /\ ops # <<>>
    /\ Head(ops).k = "tx"
    /\ uart_send(Line(Head(ops).r, <<>>, ""))
    /\ ops' = Tail(ops)
    /\ UNCHANGED <<pc, protocol, motorvars, reg, led, battlevel, ADCH, togglevars,
                   inputvars, blcvars, eepromvars, ticks, checked, unitvars, prevstop>>

----------------------------------------------------------------------------
(* Inputs of the control loop *)

DaguBytes == {0, 25, 47, 90, 144}               \* 0x00 0x19 0x2F 0x5A 0x90
\* every command character of handle_char, and two bytes it does not know ('x', 0)
DirectBytes == {82, 114, 115, 108, 76, 70, 102, 104, 98, 66, 97, 111, 101,
                112, 117, 32, 65, 63, 120, 0}
RawSamples == {140, 143, 150}                   \* raw ADC readings

Bytes == IF protocol = "dagu" THEN DaguBytes ELSE DirectBytes

\* uart_send("batt="); uart_sendint(ADCH); uart_sendch('\n');
SendBatt ==
    /\ ops # <<>>
    /\ Head(ops).k = "txadc"
    /\ \E raw \in RawSamples :
          /\ ADCH' = raw
          /\ uart_send(Line(Head(ops).r, uart_sendint(raw), "\n"))
    /\ ops' = Tail(ops)
    /\ UNCHANGED <<pc, protocol, motorvars, reg, led, battlevel, togglevars,
                   inputvars, blcvars, eepromvars, ticks, checked, unitvars, prevstop>>

\* flash_led1(count, rate) as one pending statement; it leaves led1 off
flash_led1(count, rate) == Op("flash", IF rate = 1 THEN "rate1" ELSE "rate2", count)

\* led1off(); led2off(); led3off(); led4off();
LedsOff == <<Led("led1", FALSE), Led("led2", FALSE), Led("led3", FALSE), Led("led4", FALSE)>>

\* faulty variant: bit 3 of the counter is not shown
AgeLeds_3bits(age) ==
    (IF BitAnd(age, 1) # 0 THEN <<Led("led1", TRUE)>> ELSE <<>>)
    \o (IF BitAnd(age, 2) # 0 THEN <<Led("led2", TRUE)>> ELSE <<>>)
    \o (IF BitAnd(age, 4) # 0 THEN <<Led("led3", TRUE)>> ELSE <<>>)

\* if (age & _BV(0)) led1on(); ... if (age & _BV(3)) led4on();
AgeLeds(age) ==
    (IF BitAnd(age, 1) # 0 THEN <<Led("led1", TRUE)>> ELSE <<>>)
    \o (IF BitAnd(age, 2) # 0 THEN <<Led("led2", TRUE)>> ELSE <<>>)
    \o (IF BitAnd(age, 4) # 0 THEN <<Led("led3", TRUE)>> ELSE <<>>)
    \o (IF BitAnd(age, 8) # 0 THEN <<Led("led4", TRUE)>> ELSE <<>>)

\* the statements of check_magic_and_show_age() for the EEPROM bytes it reads;
\* "hold" is the delay_10ms(100) during which the counter is displayed
check_magic_and_show_age(m, age) ==
    <<flash_led1(4, 1)>>
    \o (IF m # OURMAGIC THEN <<flash_led1(20, 2)>> ELSE <<>>)
    \o LedsOff \o AgeLeds(age) \o <<Op("hold", "", 100)>> \o LedsOff

\* the call of check_magic_and_show_age(): nothing writes the EEPROM while it runs
ShowAge ==
    /\ ops # <<>>
    /\ Head(ops).k = "show"
    /\ ops' = check_magic_and_show_age(ourmagic, ourage) \o Tail(ops)
    /\ UNCHANGED <<pc, protocol, motorvars, reg, led, battlevel, ADCH, togglevars, inputvars,
                   blcvars, eepromvars, tx, ticks, checked, unitvars, prevstop>>

FlashLed1 ==
    /\ ops # <<>>
    /\ Head(ops).k = "flash"
    /\ led' = [led EXCEPT !["led1"] = 0]
    /\ ops' = Tail(ops)
    /\ UNCHANGED <<pc, protocol, motorvars, reg, battlevel, ADCH, togglevars, inputvars,
                   blcvars, eepromvars, tx, ticks, checked, unitvars, prevstop>>

\* delay_10ms(100) with the counter on the LEDs
HoldDisplay ==
    /\ ops # <<>>
    /\ Head(ops).k = "hold"
    /\ ops' = Tail(ops)
    /\ UNCHANGED <<pc, protocol, motorvars, reg, led, battlevel, ADCH, togglevars, inputvars,
                   blcvars, eepromvars, tx, ticks, checked, unitvars, prevstop>>

\* faulty variant: the counter saturates at 255
age_once_saturating ==
    /\ ops # <<>>
    /\ Head(ops).k = "age"
    /\ ourage' = IF ourage = 255 THEN 255 ELSE ourage + 1
    /\ ops' = Tail(ops)
    /\ UNCHANGED <<pc, protocol, motorvars, reg, led, battlevel, ADCH, togglevars,
                   inputvars, blcvars, ourmagic, tx, ticks, checked, unitvars, prevstop>>

age_once ==
    /\ ops # <<>>
    /\ Head(ops).k = "age"
    /\ ourage' = U8(ourage + 1)
    /\ ops' = Tail(ops)
    /\ UNCHANGED <<pc, protocol, motorvars, reg, led, battlevel, ADCH, togglevars,
                   inputvars, blcvars, ourmagic, tx, ticks, checked, unitvars, prevstop>>

----------------------------------------------------------------------------
(* Unit harness: the mapper and the battery sampler called directly *)

MapperState == <<velocity, steerposition, reg>>

ArgRange == (-ArgMax .. ArgMax) \cup {Int16Min, Int16Max}
RepeatArgs == {-255, -1, 0, 128, 255}

UnitArgs(prev) == IF ncalls = 0 THEN ArgRange ELSE RepeatArgs \cup {prev}

UnitIssue(axis, v, prev) ==
    /\ ops' = <<Call(axis, v)>>
    /\ ncalls' = ncalls + 1
    /\ snap' = LET rep == snap.last = axis /\ v = prev
               IN  [last |-> axis, rep |-> rep, st |-> IF rep THEN MapperState ELSE <<>>]

UnitSetDrive ==
    /\ pc = "unit_mapper" /\ ops = <<>> /\ ncalls < MaxCalls
    /\ \E v \in UnitArgs(newvelocity) : UnitIssue("drive", v, newvelocity)
    /\ UNCHANGED <<pc, protocol, motorvars, reg, led, battlevel, ADCH, togglevars,
                   inputvars, blcvars, eepromvars, tx, ticks, checked, prevstop>>

UnitSetSteer ==
    /\ pc = "unit_mapper" /\ ops = <<>> /\ ncalls < MaxCalls
    /\ \E v \in UnitArgs(newsteerposition) : UnitIssue("steer", v, newsteerposition)
    /\ UNCHANGED <<pc, protocol, motorvars, reg, led, battlevel, ADCH, togglevars,
                   inputvars, blcvars, eepromvars, tx, ticks, checked, prevstop>>

\* the bytes a decoder is called with: every byte value in the last call of a
\* run, a representative set in the calls that prepare its previous state
AllBytes == 0 .. 255
UnitBytes(some) == IF ncalls = MaxCalls - 1 THEN AllBytes ELSE some

\* 'p' and 'u', the commands whose argument depends on the previous velocity
RelativeBytes == {112, 117}

\* what a decoder call can change, recorded when the call is issued
DecoderState == <<velocity, steerposition, reg, ourmagic, ourage, tx>>

\* handle_char_compat_dagu(c), the decoder of the compat protocol
UnitHandleCharCompatDagu ==
    /\ pc = "unit_dagu" /\ ops = <<>> /\ ncalls < MaxCalls
    /\ \E c \in UnitBytes(DaguBytes) :
          /\ ops' = handle_char_compat_dagu(c)
          /\ command' = c
    /\ ncalls' = ncalls + 1
    /\ snap' = [last |-> "dagu", rep |-> FALSE, st |-> DecoderState]
    /\ UNCHANGED <<pc, protocol, motorvars, reg, led, battlevel, ADCH, togglevars,
                   PIND4, RXC0, blcvars, eepromvars, tx, ticks, checked, prevstop>>

\* handle_char(c), the decoder of the direct protocol
UnitHandleChar ==
    /\ pc \in {"unit_mapper", "unit_char"} /\ ops = <<>> /\ ncalls < MaxCalls
    /\ \E c \in (IF pc = "unit_char" THEN UnitBytes(DirectBytes) ELSE RelativeBytes) :
          /\ ops' = handle_char(c)
          /\ command' = c
    /\ ncalls' = ncalls + 1
    /\ snap' = [last |-> "char", rep |-> FALSE,
                st |-> IF pc = "unit_char" THEN DecoderState ELSE <<>>]
    /\ UNCHANGED <<pc, protocol, motorvars, reg, led, battlevel, ADCH, togglevars,
                   PIND4, RXC0, blcvars, eepromvars, tx, ticks, checked, prevstop>>

UnitBattSample ==
    /\ pc = "unit_batt" /\ ncalls < MaxCalls
    /\ \E raw \in 0 .. 255 :
          /\ ADCH' = raw
          /\ battlevel' = batt_sample(raw)
    /\ ncalls' = ncalls + 1
    /\ UNCHANGED <<pc, ops, protocol, motorvars, reg, led, togglevars, inputvars,
                   blcvars, eepromvars, tx, ticks, checked, snap, prevstop>>

\* the EEPROM keeps its content over resets: the counter may hold any byte, and
\* the magic byte is OURMAGIC unless the cell is erased or corrupted
AgeValues == {0, 42, 255}
MagicValues == {OURMAGIC, 255}

UnitInit ==
    /\ InitState
    /\ pc \in {"unit_mapper", "unit_batt", "unit_dagu", "unit_char"}
    /\ ops = <<>>
    /\ protocol = IF pc = "unit_dagu" THEN "dagu" ELSE "direct"
    /\ ourmagic \in (IF pc = "unit_char" THEN MagicValues ELSE {OURMAGIC})
    /\ ourage \in (IF pc = "unit_char" THEN AgeValues ELSE {0})

UnitNext ==
    \/ UnitSetDrive
    \/ UnitSetSteer
    \/ UnitHandleCharCompatDagu
    \/ UnitHandleChar
    \/ UnitBattSample
    \/ DriveSet
    \/ SteerSet
    \/ WriteReg
    \/ SendText
    \/ SendBatt
    \/ SetLed
    \/ ShowAge
    \/ FlashLed1
    \/ HoldDisplay
    \/ age_once

UnitSpec == UnitInit /\ [][UnitNext]_vars

----------------------------------------------------------------------------
(* Start-up self test of main() *)

pulse_motor_steering(speed, repeat) ==
    LET once == <<Write("OCR0A", speed), Led("led1", TRUE), Led("led2", FALSE), Led("led3", FALSE),
                  Write("OCR0A", 0), Led("led1", FALSE), Led("led2", TRUE), Led("led3", FALSE),
                  Write("OCR0B", speed), Led("led1", FALSE), Led("led2", FALSE), Led("led3", TRUE),
                  Write("OCR0B", 0), Led("led1", FALSE), Led("led2", TRUE), Led("led3", FALSE)>>
        rep[n \in 0 .. repeat] == IF n = 0 THEN <<>> ELSE once \o rep[n - 1]
    IN  <<Write("OCR0A", 0), Write("OCR0B", 0)>> \o rep[repeat]
        \o <<Led("led1", FALSE), Led("led2", FALSE), Led("led3", FALSE)>>

pulse_motor_drive(speed, repeat) ==
    LET once == <<Write("OCR1A", speed), Write("OCR1A", 0),
                  Write("OCR1B", speed), Write("OCR1B", 0)>>
        rep[n \in 0 .. repeat] == IF n = 0 THEN <<>> ELSE once \o rep[n - 1]
    IN  <<Write("OCR1A", 0), Write("OCR1B", 0)>> \o rep[repeat]

----------------------------------------------------------------------------
(* The control loop of main() *)

\* motor_drive_set_velocity(0); motor_steer_set_velocity(0);
StopMotors == <<Call("drive", 0), Call("steer", 0)>>

\* the else branch of if (bluetooth_connected())
LinkCheck(connected) == IF connected THEN <<>> ELSE StopMotors

\* faulty variant: after a tick that forced a stop, commands are ignored
Dispatch_latched(c) ==
    IF prevstop THEN <<>>
    ELSE IF protocol = "dagu" THEN handle_char_compat_dagu(c) ELSE handle_char(c)

\* handle_char_compat_dagu(command), or handle_char(command) in the other build
Dispatch(c) == IF protocol = "dagu" THEN handle_char_compat_dagu(c) ELSE handle_char(c)

\* faulty variant: only the drive axis is stopped
BattOverride_driveonly(r) == IF r THEN <<Call("drive", 0)>> ELSE <<>>

\* faulty variant: the motors are stopped whatever the check returned
BattOverride_always(r) == StopMotors

\* if (batt_low_consistently(battlowthreshold)) { ... stop ... }
BattOverride(r) == IF r THEN StopMotors ELSE <<>>

\* battlevel < threshold
IsLow(level, threshold) == level < threshold

\* the bound of the for loop of batt_low_consistently
BlcSamples == 20

\* count--; if (count <= 0) { count = period; state = !state; }
ToggleStep(count, state, period) ==
    LET c == U8(count - 1)
    IN  IF c <= 0 THEN <<period, IF state = 0 THEN 1 ELSE 0>> ELSE <<c, state>>

\* wdt_reset(), the first statement of the loop body, in a run of at most limit ticks
WdtResetWithin(limit) ==
    /\ pc = "wdt" /\ ops = <<>>
    /\ ticks < limit
    /\ ticks' = ticks + 1
    /\ prevstop' = (ticks > 0 /\ (~PIND4 \/ (checked /\ ret)))
    /\ checked' = FALSE /\ ret' = FALSE
    /\ tx' = [tx EXCEPT !.n = 0]
    /\ pc' = "conn"
    /\ UNCHANGED <<ops, protocol, motorvars, reg, led, battlevel, ADCH, togglevars,
                   inputvars, i, warn, taken, below, eepromvars, unitvars>>

WdtReset == WdtResetWithin(MaxTicks)

BluetoothCheck ==
    /\ pc = "conn"
    /\ \E connected \in BOOLEAN :
          /\ PIND4' = connected
          /\ ops' = LinkCheck(connected)
    /\ pc' = "uart"
    /\ UNCHANGED <<protocol, motorvars, reg, led, battlevel, ADCH, togglevars,
                   RXC0, command, blcvars, eepromvars, tx, ticks, checked, unitvars, prevstop>>

\* faulty variant: uart_getch() is called without looking at uart_hasch()
UartPoll_blocking ==
    /\ pc = "uart" /\ ops = <<>>
    /\ \E has \in BOOLEAN :
          /\ RXC0' = has
          /\ led' = [led EXCEPT !["led4"] = 1]
          /\ pc' = "getch"
    /\ UNCHANGED <<ops, protocol, motorvars, reg, battlevel, ADCH, togglevars,
                   PIND4, command, blcvars, eepromvars, tx, ticks, checked, unitvars, prevstop>>

UartPoll ==
    /\ pc = "uart" /\ ops = <<>>
    /\ \E has \in BOOLEAN :
          /\ RXC0' = has
          /\ IF has
             THEN /\ led' = [led EXCEPT !["led4"] = 1]
                  /\ pc' = "getch"
             ELSE /\ led' = led
                  /\ pc' = "vtoggle"
    /\ UNCHANGED <<ops, protocol, motorvars, reg, battlevel, ADCH, togglevars,
                   PIND4, command, blcvars, eepromvars, tx, ticks, checked, unitvars, prevstop>>

\* command = uart_getch(); led4off(); and the decoder call, for a byte of received
UartGetchFrom(received) ==
    /\ pc = "getch"
    /\ RXC0                                 \* loop_until_bit_is_set(UCSR0A, RXC0)
    /\ \E c \in received :
          /\ command' = c
          /\ ops' = Dispatch(c)
    /\ led' = [led EXCEPT !["led4"] = 0]
    /\ pc' = "vtoggle"
    /\ UNCHANGED <<protocol, motorvars, reg, battlevel, ADCH, togglevars,
                   PIND4, RXC0, blcvars, eepromvars, tx, ticks, checked, unitvars, prevstop>>

UartGetch == UartGetchFrom(Bytes)

DisplayToggle ==
    /\ pc = "vtoggle" /\ ops = <<>>
    /\ LET t == ToggleStep(voltagedisplaytogglecountdown, voltagedisplaytogglestate,
                           voltagedisplaytoggleperiodlength)
       IN  /\ voltagedisplaytogglecountdown' = t[1]
           /\ voltagedisplaytogglestate' = t[2]
    /\ pc' = "vdisplay"
    /\ UNCHANGED <<ops, protocol, motorvars, reg, led, battlevel, ADCH,
                   battwarntogglecountdown, battwarntogglestate,
                   inputvars, blcvars, eepromvars, tx, ticks, checked, unitvars, prevstop>>

\* faulty variant: the battery is sampled whether or not the display toggle is on
DisplaySampleFrom_always(readings) ==
    /\ pc = "vdisplay"
    /\ \E raw \in readings :
          /\ ADCH' = raw
          /\ battlevel' = batt_sample(raw)
          /\ reg' = [reg EXCEPT !["OCR2B"] = 255 - batt_sample(raw)]
    /\ pc' = "wtoggle"
    /\ UNCHANGED <<ops, protocol, motorvars, led, togglevars,
                   inputvars, blcvars, eepromvars, tx, ticks, checked, unitvars, prevstop>>

\* the battery display branch, for a raw reading of readings
DisplaySampleFrom(readings) ==
    /\ pc = "vdisplay"
    /\ IF voltagedisplaytogglestate # 0
       THEN \E raw \in readings :
               /\ ADCH' = raw
               /\ battlevel' = batt_sample(raw)
               /\ reg' = [reg EXCEPT !["OCR2B"] = 255 - batt_sample(raw)]
       ELSE /\ reg' = [reg EXCEPT !["OCR2B"] = 255 - 255]
            /\ UNCHANGED <<ADCH, battlevel>>
    /\ pc' = "wtoggle"
    /\ UNCHANGED <<ops, protocol, motorvars, led, togglevars,
                   inputvars, blcvars, eepromvars, tx, ticks, checked, unitvars, prevstop>>

DisplaySample == DisplaySampleFrom(RawSamples)

WarnToggle ==
    /\ pc = "wtoggle"
    /\ LET t == ToggleStep(battwarntogglecountdown, battwarntogglestate,
                           battwarntoggleperiodlength)
       IN  /\ battwarntogglecountdown' = t[1]
           /\ battwarntogglestate' = t[2]
    /\ pc' = "battcheck"
    /\ UNCHANGED <<ops, protocol, motorvars, reg, led, battlevel, ADCH,
                   voltagedisplaytogglecountdown, voltagedisplaytogglestate,
                   inputvars, blcvars, eepromvars, tx, ticks, checked, unitvars, prevstop>>

BattLevelTest ==
    /\ pc = "battcheck"
    /\ IF IsLow(battlevel, battlowthreshold)
       THEN /\ uart_send(Line("batt=", uart_sendint(battlevel), "\n"))
            /\ pc' = "blc_begin"
       ELSE /\ tx' = tx
            /\ pc' = "delay"
    /\ UNCHANGED <<ops, protocol, motorvars, reg, led, battlevel, ADCH, togglevars,
                   inputvars, blcvars, eepromvars, ticks, checked, unitvars, prevstop>>

BlcBegin ==
    /\ pc = "blc_begin"
    /\ warn' = 0
    /\ i' = 0
    /\ uart_send(Line("batt long check:", <<>>, ""))
    /\ checked' = TRUE
    /\ taken' = 0 /\ below' = 0
    /\ pc' = "blc_loop"
    /\ UNCHANGED <<ops, protocol, motorvars, reg, led, battlevel, ADCH, togglevars,
                   inputvars, ret, eepromvars, ticks, unitvars, prevstop>>

BlcSample ==
    /\ pc = "blc_loop"
    /\ i < BlcSamples
    /\ \E raw \in RawSamples :
          /\ ADCH' = raw
          /\ battlevel' = batt_sample(raw)
          /\ IF IsLow(batt_sample(raw), battlowthreshold)
             THEN /\ uart_send(Line(" batt=", uart_sendint(batt_sample(raw)), ""))
                  /\ warn' = U8(warn + 1)
             ELSE UNCHANGED <<tx, warn>>
          /\ below' = IF batt_sample(raw) < battlowthreshold THEN below + 1 ELSE below
    /\ taken' = taken + 1
    /\ i' = U8(i + 1)
    /\ UNCHANGED <<pc, ops, protocol, motorvars, reg, led, togglevars,
                   inputvars, ret, eepromvars, ticks, checked, unitvars, prevstop>>

BlcReturn ==
    /\ pc = "blc_loop"
    /\ ~(i < BlcSamples)
    /\ uart_send(Line(" done.\n", <<>>, ""))
    /\ ret' = batt_low_result(warn)
    /\ pc' = "blc_ret"
    /\ UNCHANGED <<ops, protocol, motorvars, reg, led, battlevel, ADCH, togglevars,
                   inputvars, i, warn, taken, below, eepromvars, ticks, checked, unitvars, prevstop>>

BattCritical ==
    /\ pc = "blc_ret"
    /\ led' = IF ret THEN [led EXCEPT !["led3"] = IF battwarntogglestate # 0 THEN 1 ELSE 0]
              ELSE led
    /\ ops' = BattOverride(ret)
    /\ i' = 0 /\ warn' = 0 /\ taken' = 0 /\ below' = 0      \* the callee's locals are gone
    /\ pc' = "delay"
    /\ UNCHANGED <<protocol, motorvars, reg, battlevel, ADCH, togglevars,
                   inputvars, ret, eepromvars, tx, ticks, checked, unitvars, prevstop>>

\* faulty variant: the loop continues after the watchdog refresh
Delay_skip ==
    /\ pc = "delay" /\ ops = <<>>
    /\ pc' = "conn"
    /\ UNCHANGED <<ops, protocol, motorvars, reg, led, battlevel, ADCH, togglevars,
                   inputvars, blcvars, eepromvars, tx, ticks, checked, unitvars, prevstop>>

\* faulty variant: the loop is left after the first tick
Delay_exit ==
    /\ pc = "delay" /\ ops = <<>>
    /\ pc' = "exit"
    /\ UNCHANGED <<ops, protocol, motorvars, reg, led, battlevel, ADCH, togglevars,
                   inputvars, blcvars, eepromvars, tx, ticks, checked, unitvars, prevstop>>

Delay ==
    /\ pc = "delay" /\ ops = <<>>
    /\ pc' = "wdt"
    /\ UNCHANGED <<ops, protocol, motorvars, reg, led, battlevel, ADCH, togglevars,
                   inputvars, blcvars, eepromvars, tx, ticks, checked, unitvars, prevstop>>

Init ==
    /\ InitState
    /\ pc = "wdt"
    /\ ops = pulse_motor_steering(96, 1) \o pulse_motor_drive(96, 1)
    /\ protocol = "dagu"                    \* main() calls handle_char_compat_dagu
    /\ ourmagic = OURMAGIC /\ ourage = 0    \* the EEPROM image of the build

Next ==
    \/ WdtReset
    \/ BluetoothCheck
    \/ UartPoll
    \/ UartGetch
    \/ DisplayToggle
    \/ DisplaySample
    \/ WarnToggle
    \/ BattLevelTest
    \/ BlcBegin
    \/ BlcSample
    \/ BlcReturn
    \/ BattCritical
    \/ Delay
    \/ DriveSet
    \/ SteerSet
    \/ WriteReg
    \/ SetLed

Spec == Init /\ [][Next]_vars

\* the processor always executes its next instruction, and every busy-wait on
\* the transmitter (uart_sendch) ends
SpecFair == Spec /\ WF_vars(Next)

----------------------------------------------------------------------------
(* A long run of the control loop on a healthy battery: the readings never
   reach the low threshold, so batt_low_consistently is not called *)

LongTicks == 300
HealthyRaw == {140, 150}                        \* levels 246 and 40
LongBytes == {25}                               \* 0x19

LongNext ==
    \/ WdtResetWithin(LongTicks)
    \/ BluetoothCheck
    \/ UartPoll
    \/ UartGetchFrom(LongBytes)
    \/ DisplayToggle
    \/ DisplaySampleFrom(HealthyRaw)
    \/ WarnToggle
    \/ BattLevelTest
    \/ Delay
    \/ DriveSet
    \/ SteerSet
    \/ WriteReg
    \/ SetLed

LongSpec == Init /\ [][LongNext]_vars

----------------------------------------------------------------------------
(* Properties *)

EndOfTick == pc = "delay" /\ ops = <<>>
MotorsStopped == velocity = 0 /\ steerposition = 0
DutiesZero == reg["OCR0A"] = 0 /\ reg["OCR0B"] = 0 /\ reg["OCR1A"] = 0 /\ reg["OCR1B"] = 0
InRange(v) == v \in -255 .. 255
DriveDone == pc = "unit_mapper" /\ ops = <<>> /\ snap.last = "drive"
SteerDone == pc = "unit_mapper" /\ ops = <<>> /\ snap.last = "steer"
Nonzero(x) == IF x # 0 THEN 1 ELSE 0

\* C1: a tick in which the connectivity input read false ends with both
\* velocities 0 and all four motor duties 0, whatever command it processed.
C1_LinkLossWins ==
    (EndOfTick /\ ~PIND4) => (MotorsStopped /\ DutiesZero)

\* C2: a tick in which the battery level was below the threshold and the
\* sustained-low check returned true ends with both velocities 0.
C2_BattCriticalStops ==
    (EndOfTick /\ checked /\ ret) => MotorsStopped

C2_Witness ==
    /\ EndOfTick /\ checked /\ ret
    /\ PIND4 /\ RXC0 /\ command = 90
    /\ MotorsStopped

\* C3: when the sustained-low check begins, both velocities are already 0.
C3_StoppedBeforeCheck ==
    pc = "blc_begin" => MotorsStopped

\* C3 (amended): once the sustained-low check has been entered in a tick, the
\* velocities and duties change only after the check has returned true.
C3_StopOnlyAfterCheck ==
    [][ ((pc = "blc_begin" \/ checked) /\ MapperState' # MapperState)
            => (pc = "delay" /\ ret) ]_vars

C3_Witness ==
    pc = "blc_loop" /\ taken = BlcSamples /\ below = BlcSamples /\ velocity = 114

\* C4: in every state, at most one duty of the drive pair and at most one duty
\* of the steer pair is non-zero.
C4_DutyPairExclusive ==
    /\ reg["OCR1A"] = 0 \/ reg["OCR1B"] = 0
    /\ reg["OCR0A"] = 0 \/ reg["OCR0B"] = 0

\* a reversal in progress: the forward duty is still set, its clearing is next
C4_Witness ==
    /\ velocity < 0 /\ reg["OCR1B"] # 0
    /\ ops # <<>> /\ Head(ops) = Write("OCR1B", 0)

\* C5: for v in -255..255, after set_drive(v) exactly one drive duty is non-zero.
C5_ExactlyOneDuty ==
    (DriveDone /\ InRange(newvelocity))
        => Nonzero(reg["OCR1A"]) + Nonzero(reg["OCR1B"]) = 1

\* C5 (amended): for v in -255..255, after set_drive(v) exactly one drive duty
\* is non-zero unless v is 0 or -1, and then both are 0.
C5_OneDutyUnlessZero ==
    (DriveDone /\ InRange(newvelocity))
        => Nonzero(reg["OCR1A"]) + Nonzero(reg["OCR1B"])
              = (IF newvelocity \in {0, -1} THEN 0 ELSE 1)

C5_Witness ==
    DriveDone /\ newvelocity = -1 /\ ncalls = 2 /\ reg["OCR1A"] = 0 /\ reg["OCR1B"] = 0

\* C6: the level stored for raw reading r is min(255, 5 * max(0, r - 142)).
C6_BattAffine ==
    (pc = "unit_batt" /\ ncalls > 0)
        => battlevel = (LET d == IF ADCH - 142 < 0 THEN 0 ELSE ADCH - 142
                        IN  IF 5 * d > 255 THEN 255 ELSE 5 * d)

\* C7: the sustained-low check takes exactly 20 samples and returns true iff
\* at least 18 of them are below the threshold.
C7_SustainedLow ==
    pc = "blc_ret" => (taken = 20 /\ (ret <=> below >= 18))

C7_Witness ==
    pc = "blc_ret" /\ below = 17 /\ ~ret

\* C8: a velocity write above 255 stores 255, one below -255 stores -255, and
\* both stored velocities always lie in -255..255.
C8_VelocityClamped ==
    /\ InRange(velocity) /\ InRange(steerposition)
    /\ newvelocity > 255 => velocity = 255
    /\ newvelocity < -255 => velocity = -255
    /\ newsteerposition > 255 => steerposition = 255
    /\ newsteerposition < -255 => steerposition = -255

\* 'u' at the lower boundary
C8_Witness ==
    ops = <<>> /\ command = 117 /\ newvelocity = -260 /\ velocity = -255

\* C9: for v in -255..-1 the reverse/left duty is 255 - (v & 0xFF) and the
\* forward/right duty is 0; for v in 0..255 the forward/right duty is v and
\* the reverse/left duty is 0.
C9_DutyValues ==
    LET low(v) == (v + 65536) % 256          \* v & 0xFF in 16-bit two's complement
        ok(v, fwd, rev) ==
            IF v < 0 THEN reg[rev] = 255 - low(v) /\ reg[fwd] = 0
                     ELSE reg[fwd] = v /\ reg[rev] = 0
    IN  /\ (DriveDone /\ InRange(newvelocity)) => ok(newvelocity, "OCR1B", "OCR1A")
        /\ (SteerDone /\ InRange(newsteerposition)) => ok(newsteerposition, "OCR0A", "OCR0B")
        /\ (DriveDone /\ newvelocity = -1) => reg["OCR1A"] = 0
        /\ (DriveDone /\ newvelocity = -128) => reg["OCR1A"] = 127
        /\ (DriveDone /\ newvelocity = -255) => reg["OCR1A"] = 254

C9_Witness ==
    DriveDone /\ newvelocity = -128 /\ reg["OCR1A"] = 127 /\ reg["OCR1B"] = 0

\* C10: a second set_drive(v) or set_steer(v) with the same v in -255..255
\* leaves the stored velocities and the duty pairs as the first one left them.
C10_Idempotent ==
    LET v == IF snap.last = "drive" THEN newvelocity ELSE newsteerposition
    IN  (pc = "unit_mapper" /\ ops = <<>> /\ snap.rep /\ InRange(v))
            => MapperState = snap.st

C10_Witness ==
    /\ DriveDone /\ snap.rep
    /\ newvelocity = -128 /\ velocity = -128 /\ reg["OCR1A"] = 127

----------------------------------------------------------------------------
(* The decoders *)

\* a call of handle_char_compat_dagu(command) has returned
DaguDone == pc = "unit_dagu" /\ ncalls > 0 /\ ops = <<>>

\* steer velocity and sign of the drive velocity for the direction codes 0..8
DaguSteerTable == <<0, 0, 0, -255, 255, -255, 255, -255, 255>>
DaguDriveSign == <<0, 1, -1, 0, 0, 1, 1, -1, -1>>
DaguSteer(c) == DaguSteerTable[(c \div 16) + 1]
DaguDrive(c) == DaguDriveSign[(c \div 16) + 1] * (105 + (c % 16))

\* C11: a compat byte with direction code 0..8 and magnitude m sets the steer and
\* drive velocities to the table's pair with speed 105 + m, whatever the
\* velocities were before; 0x19 gives (0, 114) and 0x5A gives (-255, 115)
C11_CompatDecoding ==
    (DaguDone /\ command \div 16 <= 8) =>
        /\ steerposition = DaguSteer(command)
        /\ velocity = DaguDrive(command)
        /\ (command = 25 => steerposition = 0 /\ velocity = 114)
        /\ (command = 90 => steerposition = -255 /\ velocity = 115)

\* 0x5A decoded after 0x19 had set other velocities
C11_Witness ==
    /\ DaguDone /\ command = 90
    /\ snap.st[1] = 114 /\ snap.st[2] = 0
    /\ velocity = 115 /\ steerposition = -255

\* C12: a compat byte with direction code 9..15 changes neither velocity nor any
\* duty register and sends nothing
C12_UnknownDirectionIgnored ==
    (DaguDone /\ command \div 16 >= 9) => DecoderState = snap.st

\* 0xF0 received while driving forward at 114
C12_Witness ==
    DaguDone /\ command = 240 /\ velocity = 114 /\ reg["OCR1B"] = 114

----------------------------------------------------------------------------
(* The control loop: recovery, toggles, watchdog, command ingestion *)

\* C13: no safe stop is sticky: at the end of a tick in which the link reads
\* connected, a valid compat command was decoded and the battery override did
\* not fire, the velocities are the ones that command selects, whatever
\* happened in earlier ticks
C13_NoStickyStop ==
    (EndOfTick /\ PIND4 /\ RXC0 /\ command \div 16 <= 8 /\ ~(checked /\ ret)) =>
        /\ steerposition = DaguSteer(command)
        /\ velocity = DaguDrive(command)

\* the tick after a forced stop ends with the velocities of command 0x5A
C13_Witness ==
    /\ EndOfTick /\ prevstop /\ PIND4 /\ RXC0 /\ ~(checked /\ ret)
    /\ command = 90 /\ velocity = 115 /\ steerposition = -255

\* the number of toggle steps each ToggleState has taken since start-up
DisplayStepsDone == IF pc \in {"conn", "uart", "getch", "vtoggle"} THEN ticks - 1 ELSE ticks
WarnStepsDone ==
    IF pc \in {"conn", "uart", "getch", "vtoggle", "vdisplay", "wtoggle"} THEN ticks - 1 ELSE ticks

\* C14: a ToggleState with period P flips exactly once every P ticks from the
\* first tick onwards, whatever the inputs: after k * P ticks it has flipped k
\* times, for the display toggle (P = 200) and the warning toggle (P = 20)
C14_FlipsEveryPeriod ==
    /\ (ticks > 0 /\ DisplayStepsDone % voltagedisplaytoggleperiodlength = 0) =>
          voltagedisplaytogglestate = (DisplayStepsDone \div voltagedisplaytoggleperiodlength) % 2
    /\ (ticks > 0 /\ WarnStepsDone % battwarntoggleperiodlength = 0) =>
          battwarntogglestate = (WarnStepsDone \div battwarntoggleperiodlength) % 2

\* the position of each step in the loop body
TickRank ==
    [wdt |-> 0, conn |-> 1, uart |-> 2, getch |-> 3, vtoggle |-> 4, vdisplay |-> 5,
     wtoggle |-> 6, battcheck |-> 7, blc_begin |-> 8, blc_loop |-> 9, blc_ret |-> 10,
     delay |-> 11]

\* C15: the watchdog is refreshed exactly once per tick, as the first step: the
\* refresh (counted by ticks) happens exactly on the step that starts the tick,
\* every other step of the tick comes later in the loop body, and the tick
\* delay is always followed by the refresh
C15_RefreshFirstOncePerTick ==
    [][ /\ (ticks' # ticks) <=> (pc = "wdt" /\ pc' = "conn")
        /\ (ticks' # ticks) => ticks' = ticks + 1
        /\ (pc' # pc) => IF pc = "delay" THEN pc' = "wdt"
                         ELSE TickRank[pc'] > TickRank[pc] ]_vars

\* a tick with a command and a sustained-low check has reached its delay
C15_Witness == EndOfTick /\ ticks = 10 /\ RXC0 /\ checked /\ ret

\* C16: the blocking receive is entered only from the has-data check and only
\* when it returned true; it takes one byte and leaves the ingestion step; when
\* the check returned false nothing is consumed, nothing is dispatched and the
\* tick goes on; no other step touches the receiver
C16_OneByteWhenAvailable ==
    [][ /\ (pc' = "getch") => (pc = "uart" /\ RXC0')
        /\ (pc = "getch" /\ pc' # pc) => (RXC0 /\ pc' = "vtoggle")
        /\ (pc = "uart" /\ pc' # pc /\ ~RXC0') =>
              (pc' = "vtoggle" /\ ops' = <<>> /\ command' = command
               /\ UNCHANGED <<velocity, steerposition, reg>>)
        /\ (pc' = "uart") => (pc \in {"conn", "uart"})
        /\ (pc \notin {"uart", "getch"}) => UNCHANGED <<RXC0, command>> ]_vars

\* tick 1 took the byte 0x19, tick 2 found no byte and went on
C16_Witness ==
    pc = "vtoggle" /\ ticks = 2 /\ ~RXC0 /\ command = 25 /\ velocity = 114 /\ ops = <<>>

\* C17: the loop never exits and never hangs: a tick that has started always
\* reaches the watchdog refresh of the next tick (within the ticks explored),
\* whatever the inputs
C17_TickTerminates ==
    (pc = "conn") ~> (pc = "wdt" /\ ops = <<>> /\ (ticks < MaxTicks => ENABLED WdtReset))

\* the refresh that follows a tick with a command and a battery override
C17_Witness == pc = "conn" /\ ticks = 11 /\ prevstop /\ RXC0 /\ command = 25

----------------------------------------------------------------------------
(* The persistent counter and the direct protocol *)

\* the statement about to run is the EEPROM write of age_once()
AgeStep == ops # <<>> /\ Head(ops).k = "age"

\* C18: the counter byte changes only in age_once(), reached only through the
\* diagnostic command 'A', and each time by exactly +1 modulo 256; nothing
\* writes the magic byte
C18_CounterOnlyByDiagnostic ==
    [][ /\ ourmagic' = ourmagic
        /\ (ourage' # ourage) => (AgeStep /\ command = 65)
        /\ (AgeStep /\ ops' # ops) => ourage' = (ourage + 1) % 256 ]_vars

\* 'A' has wrapped the counter from 255 to 0
C18_Witness ==
    pc = "unit_char" /\ ops = <<>> /\ command = 65 /\ snap.st[5] = 255 /\ ourage = 0

\* the value on the four LEDs, led1 being bit 0
Displayed == led["led1"] + 2 * led["led2"] + 4 * led["led3"] + 8 * led["led4"]
\* the one-second display of check_magic_and_show_age() is on
Holding == ops # <<>> /\ Head(ops).k = "hold"
AgePending == \E j \in 1 .. Len(ops) : ops[j].k = "age"
ShowStarts == ops # <<>> /\ Head(ops).k = "flash" /\ Head(ops).v = 4

\* C19: check_magic_and_show_age() shows the low 4 bits of the counter on the
\* LEDs whether or not the magic byte matches, and flashes the mismatch
\* sequence exactly when the magic byte is not 0x47; in the 'A' command the
\* first display is the old counter and the one after age_once() is old + 1
C19_ShowsLowBits ==
    /\ Holding => Displayed = ourage % 16
    /\ ShowStarts =>
          /\ (ops[2].k = "flash" /\ ops[2].v = 20) <=> (ourmagic # 71)
          /\ \E j \in 1 .. Len(ops) : ops[j].k = "hold"
    /\ (Holding /\ AgePending) => Displayed = snap.st[5] % 16
    /\ (Holding /\ ~AgePending) => Displayed = (snap.st[5] + 1) % 16

\* the display after the increment of 42, with a wrong magic byte
C19_Witness ==
    Holding /\ ~AgePending /\ ourmagic = 255 /\ snap.st[5] = 42 /\ Displayed = 11

\* a call of handle_char(command) has returned
CharDone == pc = "unit_char" /\ ncalls > 0 /\ ops = <<>>
\* R r s l L F f h b B a o e p u ' ' A ?
Recognized == {82, 114, 115, 108, 76, 70, 102, 104, 98, 66, 97, 111, 101, 112, 117, 32, 65, 63}
ErrorLine == Line("?\n", <<>>, "")

\* C20: an unrecognized byte sends exactly the line "?\n" and changes neither
\* velocity, nor any duty, nor the counter; a recognized byte never sends it
C20_ErrorLineIffUnknown ==
    /\ (CharDone /\ command \notin Recognized) =>
          /\ tx = [n |-> snap.st[6].n + 1, line |-> ErrorLine]
          /\ <<velocity, steerposition, reg, ourmagic, ourage>> = SubSeq(snap.st, 1, 5)
    /\ (pc = "unit_char" /\ ncalls > 0 /\ command \in Recognized /\ tx.n > snap.st[6].n) =>
          tx.line # ErrorLine

\* 'x' received while driving at full speed
C20_Witness ==
    CharDone /\ command = 120 /\ velocity = 255 /\ tx.line = ErrorLine

----------------------------------------------------------------------------
(* Battery level lifecycle and the velocities of the compat build *)

\* C21: the stored battery level is retained between samples: a step changes
\* it only in the display branch of a display-on tick or inside the
\* sustained-low check, so a tick with the display toggle off and the level not
\* below the threshold leaves it unchanged; when the check returns, it has
\* taken 20 samples and the level is the one of the last reading
C21_BattLevelRetained ==
    [][ /\ (battlevel' # battlevel) =>
              \/ (pc = "vdisplay" /\ voltagedisplaytogglestate # 0)
              \/ pc = "blc_loop"
        /\ (pc = "battcheck" /\ pc' # pc /\ battlevel >= battlowthreshold) => pc' = "delay"
        /\ (pc' = "blc_ret" /\ pc # pc') =>
              (taken' = 20 /\ battlevel' = batt_sample(ADCH')) ]_vars

\* a display-off tick with a command has ended with the level still 11
C21_Witness ==
    /\ EndOfTick /\ ticks = 9 /\ voltagedisplaytogglestate = 0
    /\ RXC0 /\ command = 90 /\ battlevel = 11

\* C22: in the compat build the steer velocity is -255, 0 or 255 and the drive
\* velocity is 0 or has a magnitude in 105..120, in every state of the loop
C22_CompatVelocityValues ==
    /\ steerposition \in {-255, 0, 255}
    /\ velocity \in {0} \cup (105 .. 120) \cup (-120 .. -105)

\* 0x2F has set full reverse speed
C22_Witness == EndOfTick /\ command = 47 /\ velocity = -120 /\ steerposition = 0

====
